---- MODULE Spec2Model ----
(***************************************************************************)
(* darkstone (src/src/main.rs): a Vault is built from the *.md files under *)
(* a root directory, one Note per file; main prints the sorted,            *)
(* deduplicated targets of the vault (note names, "name|alias" strings and *)
(* link destinations).                                                     *)
(*                                                                         *)
(* Strings are sequences of bytes (Rust String, UTF-8).  A syntax node is  *)
(* its byte range [start, end) in the text that was parsed.  The           *)
(* tree-sitter parsers and the query engine are the environment of the     *)
(* program: what they deliver for a text is given by the operators of the  *)
(* section "Parsers and query engine"; everything else is main.rs.         *)
(***************************************************************************)
EXTENDS Integers, Sequences, FiniteSets

\* The largest number of *.md files under the root directory.
MaxFiles == 2

----------------------------------------------------------------------------
(* Bytes and strings *)

\* U+FEFF in UTF-8; read_to_string keeps it in Note.content (line 106).
BOM == <<239, 187, 191>>

\* "|" of format!("{}|{}", name, alias) (line 143).
Bar == <<124>>

Foo == <<70, 111, 111>>

BarText == <<66, 97, 114>>

\* &s[r.start..r.end] of a Rust string (lines 171, 205, 237, 284, 285).
Slice(s, r) == SubSeq(s, r.start + 1, r.end)

Node(a, b) == [start |-> a, end |-> b]

\* Option<T>: None is <<>>, Some(x) is <<x>>.
None == <<>>

Some(x) == <<x>>

\* Vec::pop (lines 234, 272, 277): the last element, if any.
Pop(v) == IF v = <<>> THEN None ELSE Some(v[Len(v)])

Range(s) == {s[i] : i \in DOMAIN s}

\* The byte-wise order of Rust's String (Ord for str), used by sort (line 321).
RECURSIVE LexLess(_, _)
LexLess(a, b) ==
    IF b = <<>> THEN FALSE
    ELSE IF a = <<>> THEN TRUE
    ELSE IF a[1] # b[1] THEN a[1] < b[1]
    ELSE LexLess(Tail(a), Tail(b))

----------------------------------------------------------------------------
(* The files on disk *)

\* "---\naliases:\n  - x\n  - y\n---\n"
FmAliasesText ==
    <<45, 45, 45, 10, 97, 108, 105, 97, 115, 101, 115, 58, 10,
      32, 32, 45, 32, 120, 10, 32, 32, 45, 32, 121, 10, 45, 45, 45, 10>>

\* "---\nk: \"[[Foo]]\"\n---\n"
FmQuotedText ==
    <<45, 45, 45, 10, 107, 58, 32, 34, 91, 91, 70, 111, 111, 93, 93, 34, 10,
      45, 45, 45, 10>>

\* "[[Foo]] [[Foo|Bar]]"
BodyLinksText ==
    <<91, 91, 70, 111, 111, 93, 93, 32,
      91, 91, 70, 111, 111, 124, 66, 97, 114, 93, 93>>

FmText(f) ==
    CASE f.fm = "none" -> <<>>
      [] f.fm = "aliases" -> FmAliasesText
      [] f.fm = "grouped" -> FmAliasesText
      [] f.fm = "quoted" -> FmQuotedText

BodyText(f) == IF f.body = "links" THEN BodyLinksText ELSE <<>>

\* The bytes of the file.
FileText(f) == (IF f.bom THEN BOM ELSE <<>>) \o FmText(f) \o BodyText(f)

\* The kinds of file the runs are checked on.  fault is what goes wrong with
\* the file: "globerr" (the directory walk fails on it), "unreadable"
\* (read_to_string fails), "noname" (the file name is not UTF-8),
\* "malformed" (the query engine hands body_links a match with no capture).
\* fm = "grouped": the query engine delivers the captured nodes of the
\* quantified capture @aliases in one match.
File(bom, fm, body, fault) ==
    [bom |-> bom, fm |-> fm, body |-> body, fault |-> fault]

FileKinds ==
    { File(FALSE, "none", "empty", "none"),
      File(FALSE, "aliases", "links", "none"),
      File(FALSE, "grouped", "empty", "none"),
      File(FALSE, "quoted", "empty", "none"),
      File(TRUE, "quoted", "empty", "none"),
      File(FALSE, "none", "empty", "globerr"),
      File(FALSE, "none", "links", "unreadable"),
      File(FALSE, "aliases", "empty", "noname"),
      File(FALSE, "none", "links", "malformed") }

\* The file stem of the i-th path: "A", "B", "C", ...
Stem(i) == <<64 + i>>

----------------------------------------------------------------------------
(* Parsers and query engine (tree-sitter, tree-sitter-md, tree-sitter-yaml) *)

\* The lexer skips a byte order mark at offset 0, so the first token of a
\* text that starts with one starts at byte 3.
BomLen(text) ==
    IF Len(text) >= Len(BOM) /\ SubSeq(text, 1, Len(BOM)) = BOM
    THEN Len(BOM) ELSE 0

\* MarkdownParser::parse (line 108), then cursor.goto_first_child() and
\* cursor.node() (lines 200-202): the first top-level node of the document,
\* or the document node itself when it has no child.
FirstChild(f, content) ==
    LET b == BomLen(content) IN
    IF f.fm # "none"
    THEN [kind |-> "minus_metadata", start |-> b, end |-> b + Len(FmText(f))]
    ELSE IF Len(content) > b
    THEN [kind |-> "section", start |-> b, end |-> Len(content)]
    ELSE [kind |-> "document", start |-> b, end |-> Len(content)]

\* query_cursor.matches(alias_query, ...) (lines 155-159): per match, the
\* nodes of capture 1 (@aliases), as byte ranges of the metadata text.
AliasMatches(f) ==
    CASE f.fm = "aliases" -> << <<Node(17, 18)>>, <<Node(23, 24)>> >>
      [] f.fm = "grouped" -> << <<Node(17, 18), Node(23, 24)>> >>
      [] OTHER -> <<>>

\* query_cursor.matches(frontmatter_links, ...) (lines 224-228): per match,
\* the nodes of capture 0 (@scalar): the double-quoted scalar, quotes
\* included, as a byte range of the metadata text.
ScalarMatches(f) ==
    IF f.fm = "quoted" THEN << <<Node(7, 16)>> >> ELSE <<>>

\* The first j >= i with text[j] = text[j+1] = "]", or 0 (1-based).
RECURSIVE FindClose(_, _)
FindClose(text, i) ==
    IF i + 1 > Len(text) THEN 0
    ELSE IF text[i] = 93 /\ text[i + 1] = 93 THEN i
    ELSE FindClose(text, i + 1)

\* The first k in i..j-1 with text[k] = "|", or 0 (1-based).
RECURSIVE FindBar(_, _, _)
FindBar(text, i, j) ==
    IF i >= j THEN 0
    ELSE IF text[i] = 124 THEN i
    ELSE FindBar(text, i + 1, j)

\* The captures of the body query for the link whose inner text is at
\* positions i..j-1 (1-based), as the comment of lines 265-268 lists them:
\* "[[dest|name]]" has both captures, "[[Foo]]" of a metadata scalar only a
\* destination, "[[Bar]]" of a body only a text.
LinkMatch(text, i, j, inScalar) ==
    LET k == FindBar(text, i, j) IN
    IF k # 0
    THEN [dest |-> <<Node(i - 1, k - 1)>>, text |-> <<Node(k, j - 1)>>]
    ELSE IF inScalar
    THEN [dest |-> <<Node(i - 1, j - 1)>>, text |-> <<>>]
    ELSE [dest |-> <<>>, text |-> <<Node(i - 1, j - 1)>>]

\* tree.inline_trees() and query_cursor.matches(body_query, ...) (lines
\* 253-259): the link matches of the text from position i (1-based) on, in
\* document order; per match the nodes of capture 0 (@destination) and of
\* capture 1 (@text).
RECURSIVE LinkMatches(_, _, _)
LinkMatches(text, i, inScalar) ==
    IF i + 1 > Len(text) THEN <<>>
    ELSE IF text[i] = 91 /\ text[i + 1] = 91
    THEN LET j == FindClose(text, i + 2) IN
         IF j = 0 THEN <<>>
         ELSE <<LinkMatch(text, i + 2, j, inScalar)>>
              \o LinkMatches(text, j + 2, inScalar)
    ELSE LinkMatches(text, i + 1, inScalar)

\* A match that carries neither capture: the query shape excludes it, the
\* unwrap of line 281 is what answers it.
NoCapture == [dest |-> <<>>, text |-> <<>>]

\* The matches of the body query over the note's own tree (line 212): the
\* links after the metadata block.
BodyMatches(f, content) ==
    LinkMatches(content, BomLen(content) + Len(FmText(f)) + 1, FALSE)
    \o (IF f.fault = "malformed" THEN <<NoCapture>> ELSE <<>>)

\* The orders in which par_bridge can deliver k items (lines 65, 69, 166).
Perms(k) == {p \in [1..k -> 1..k] : \A a, b \in 1..k : p[a] = p[b] => a = b}

\* One delivery order per match of a sequence of matches.
Scheds(matches) ==
    {s \in [DOMAIN matches -> UNION {Perms(Len(matches[j])) : j \in DOMAIN matches}] :
        \A j \in DOMAIN matches : s[j] \in Perms(Len(matches[j]))}

----------------------------------------------------------------------------
(* Note (lines 96-293).  A note is [path, content]; f is the file at its  *)
(* path, which stands for what the parsers deliver for content.  A        *)
(* computation that can panic returns [panic, ...].                       *)

\* Note::new (lines 105-116), for a file that can be read.
NewNote(i, f) == [path |-> i, content |-> FileText(f)]

\* path.file_stem() ... to_str() (lines 129-133): None for a name that is
\* not UTF-8.
StemStr(f, n) == IF f.fault = "noname" THEN None ELSE Some(Stem(n.path))

\* Note::frontmatter (lines 199-208).
Frontmatter(f, n) ==
    LET node == FirstChild(f, n.content) IN
    IF node.kind = "minus_metadata"
    THEN Some(Slice(n.content, node))
    ELSE None

\* Note::parsed_frontmatter (lines 183-197): the tree is what the two
\* metadata queries match in it.
ParsedFrontmatter(f, n) ==
    IF Frontmatter(f, n) # None
    THEN Some([aliases |-> AliasMatches(f), scalars |-> ScalarMatches(f)])
    ELSE None

\* The inner loop of Note::aliases (lines 163-174) for one match: the nodes
\* as par_bridge delivered them (order p), each sliced out of the metadata
\* text.
MatchAliases(fmContent, nodes, p) ==
    [i \in 1..Len(nodes) |-> Slice(fmContent, nodes[p[i]])]

RECURSIVE AliasesFrom(_, _, _, _)
AliasesFrom(fmContent, matches, sched, j) ==
    IF j > Len(matches) THEN <<>>
    ELSE MatchAliases(fmContent, matches[j], sched[j])
         \o AliasesFrom(fmContent, matches, sched, j + 1)

\* Note::aliases (lines 147-181); sched is the order in which par_bridge
\* delivered the nodes of each match.
Aliases(f, n, sched) ==
    IF ParsedFrontmatter(f, n) # None
    THEN AliasesFrom(Frontmatter(f, n)[1], ParsedFrontmatter(f, n)[1].aliases,
                     sched, 1)
    ELSE <<>>

\* Note::alias_targets (lines 138-145): par_iter over a Vec keeps the order.
AliasTargets(name, aliases) ==
    [i \in 1..Len(aliases) |-> name \o Bar \o aliases[i]]

\* Variant of Resolve that reads the two captures the other way round.
Resolve_Swapped(dest_node, text_node) ==
    IF dest_node = None /\ text_node = None THEN None
    ELSE LET d == IF text_node # None THEN text_node[1] ELSE dest_node[1]
             t == IF dest_node # None THEN dest_node[1] ELSE d
         IN  Some([dest |-> d, text |-> t])

\* Lines 281-282: the destination and text nodes of a match, None where
\* text_node.unwrap() panics.
Resolve(dest_node, text_node) ==
    IF dest_node = None /\ text_node = None THEN None
    ELSE LET d == IF dest_node # None THEN dest_node[1] ELSE text_node[1]
             t == IF text_node # None THEN text_node[1] ELSE d
         IN  Some([dest |-> d, text |-> t])

\* Variant of BodyLinks that skips a match without captures instead of
\* panicking.
RECURSIVE BodyLinks_Skip(_, _)
BodyLinks_Skip(matches, content) ==
    IF matches = <<>> THEN [panic |-> FALSE, links |-> <<>>]
    ELSE LET d == Pop(matches[1].dest)
             t == Pop(matches[1].text)
             rest == BodyLinks_Skip(Tail(matches), content)
         IN  IF d = None /\ t = None THEN rest
             ELSE [panic |-> FALSE,
                   links |-> <<[destination |->
                                  Slice(content, IF d # None THEN d[1] ELSE t[1]),
                                text |->
                                  Slice(content, IF t # None THEN t[1] ELSE d[1])]>>
                             \o rest.links]

\* Note::body_links (lines 250-292) over the matches of a tree.
RECURSIVE BodyLinks(_, _)
BodyLinks(matches, content) ==
    IF matches = <<>> THEN [panic |-> FALSE, links |-> <<>>]
    ELSE LET r == Resolve(Pop(matches[1].dest), Pop(matches[1].text))
             rest == BodyLinks(Tail(matches), content)
         IN  IF r = None \/ rest.panic
             THEN [panic |-> TRUE, links |-> <<>>]
             ELSE [panic |-> FALSE,
                   links |-> <<[destination |-> Slice(content, r[1].dest),
                                text |-> Slice(content, r[1].text)]>>
                             \o rest.links]

\* Line 237: the text of a quoted scalar, sliced out of the note's content.
ScalarText(n, nodes) == Slice(n.content, Pop(nodes)[1])

\* The loop of Note::frontmatter_links (lines 230-242).
RECURSIVE ScalarLinks(_, _, _)
ScalarLinks(n, scalars, j) ==
    IF j > Len(scalars) THEN [panic |-> FALSE, links |-> <<>>]
    ELSE LET scalar == ScalarText(n, scalars[j])
             parsed == BodyLinks(LinkMatches(scalar, 1, TRUE), scalar)
             rest == ScalarLinks(n, scalars, j + 1)
         IN  [panic |-> parsed.panic \/ rest.panic,
              links |-> parsed.links \o rest.links]

\* Note::frontmatter_links (lines 217-248).
FrontmatterLinks(f, n) ==
    IF ParsedFrontmatter(f, n) # None
    THEN ScalarLinks(n, ParsedFrontmatter(f, n)[1].scalars, 1)
    ELSE [panic |-> FALSE, links |-> <<>>]

\* Note::links (lines 210-215).
Links(f, n) ==
    LET fl == FrontmatterLinks(f, n)
        bl == BodyLinks(BodyMatches(f, n.content), n.content)
    IN  [panic |-> fl.panic \/ bl.panic, links |-> fl.links \o bl.links,
         frontmatter |-> fl.links, body |-> bl.links]

Destinations(links) == [i \in 1..Len(links) |-> links[i].destination]

\* Variant of TargetList that appends the destinations before the alias
\* targets.
TargetList_LinksFirst(name, alias_targets, links) ==
    <<name>> \o [i \in 1..Len(links) |-> links[i].destination] \o alias_targets

\* Note::targets (lines 118-126), from the name, the alias targets and the
\* links.
TargetList(name, alias_targets, links) ==
    <<name>> \o alias_targets \o Destinations(links)

\* Everything one call of Note::targets computes; panic is the name of the
\* fault when name() (line 134) or body_links (line 281) panics.
NoteTargets(f, n, sched) ==
    LET name == StemStr(f, n)
        aliases == Aliases(f, n, sched)
        links == Links(f, n)
    IN  IF name = None
        THEN [panic |-> "NoName"]
        ELSE IF links.panic
        THEN [panic |-> "MalformedMatch"]
        ELSE [panic |-> "none",
              name |-> name[1],
              aliases |-> aliases,
              alias_targets |-> AliasTargets(name[1], aliases),
              frontmatter_links |-> links.frontmatter,
              body_links |-> links.body,
              links |-> links.links,
              targets |-> TargetList(name[1], AliasTargets(name[1], aliases),
                                     links.links)]

----------------------------------------------------------------------------
(* Vault (lines 16-94) and main (lines 309-332) *)

RECURSIVE Flatten(_)
Flatten(seqs) ==
    IF seqs = <<>> THEN <<>> ELSE seqs[1] \o Flatten(Tail(seqs))

\* Itertools::unique (line 91): the first occurrence of each element, in
\* order.
RECURSIVE UniqueFrom(_, _)
UniqueFrom(s, seen) ==
    IF s = <<>> THEN <<>>
    ELSE IF s[1] \in seen THEN UniqueFrom(Tail(s), seen)
    ELSE <<s[1]>> \o UniqueFrom(Tail(s), seen \cup {s[1]})

Unique(s) == UniqueFrom(s, {})

\* Variant of CollectTargets without unique().
CollectTargets_NoUnique(lists) == Flatten(lists)

\* The end of Vault::targets (lines 88-92): the per-note lists, in the order
\* of the notes (par_iter over a Vec is indexed), flattened and
\* deduplicated.
CollectTargets(lists) == Unique(Flatten(lists))

RECURSIVE Insert(_, _)
Insert(x, s) ==
    IF s = <<>> THEN <<x>>
    ELSE IF LexLess(x, s[1]) THEN <<x>> \o s
    ELSE <<s[1]>> \o Insert(x, Tail(s))

RECURSIVE SortFrom(_)
SortFrom(s) == IF s = <<>> THEN <<>> ELSE Insert(s[1], SortFrom(Tail(s)))

\* Variant of Sort that leaves the targets as collected.
Sort_Unsorted(s) == s

\* targets.sort() (line 321).
Sort(s) == SortFrom(s)

\* Variant of CollectNote in which a finished note overwrites the last one.
CollectNote_Overwrite(notes_, note) ==
    IF notes_ = <<>> THEN <<note>>
    ELSE SubSeq(notes_, 1, Len(notes_) - 1) \o <<note>>

\* collect() of the second par_bridge (lines 69-71): a finished note is
\* added to the notes.
CollectNote(notes_, note) == Append(notes_, note)

VARIABLES
    files,      \* the *.md files under the root: path i holds files[i]
    pc,         \* where main is: "glob", "notes", "targets", "collect",
                \* "sort", "print", "done", or "aborted" after a panic
    cause,      \* the panic that aborted the run: <<kind, path>>, or <<>>
    toGlob,     \* the paths the directory walk has not yet delivered
    paths,      \* the Vec<PathBuf> collected at line 66
    pending,    \* the paths whose Note::new has not finished
    notes,      \* Vault.notes, as collected so far
    computed,   \* Vault::targets: what n.targets() gave, per finished note
    targets,    \* the targets of main (line 320)
    printed     \* the lines written to standard output

vars == <<files, pc, cause, toGlob, paths, pending, notes, computed, targets,
          printed>>

Init ==
    /\ files \in UNION {[1..n -> FileKinds] : n \in 0..MaxFiles}
    /\ pc = "glob"
    /\ cause = <<>>
    /\ toGlob = DOMAIN files
    /\ paths = <<>>
    /\ pending = {}
    /\ notes = <<>>
    /\ computed = <<>>
    /\ targets = <<>>
    /\ printed = <<>>

\* A panic: the process ends with a nonzero exit code and prints no target.
Panic(kind, i) ==
    /\ pc' = "aborted"
    /\ cause' = <<kind, i>>

\* Lines 62-67, one item of the first par_bridge: the walk delivers a path,
\* in any order; a GlobError makes the collected Result an Err, which
\* unwrap() (line 67) panics on.  With the last path the Vec is complete and
\* handed to the second par_bridge (lines 68-69).
Discover(i) ==
    /\ pc = "glob"
    /\ i \in toGlob
    /\ toGlob' = toGlob \ {i}
    /\ IF files[i].fault = "globerr"
       THEN /\ Panic("GlobError", i)
            /\ UNCHANGED <<paths, pending>>
       ELSE /\ cause' = cause
            /\ IF toGlob' = {}
               THEN /\ pc' = "notes"
                    /\ paths' = <<>>
                    /\ pending' = Range(Append(paths, i))
               ELSE /\ pc' = pc
                    /\ paths' = Append(paths, i)
                    /\ pending' = pending
    /\ UNCHANGED <<files, notes, computed, targets, printed>>

\* glob of a directory without *.md files: both par_bridges are empty.
DiscoverNone ==
    /\ pc = "glob"
    /\ toGlob = {}
    /\ pc' = "collect"
    /\ UNCHANGED <<files, cause, toGlob, paths, pending, notes, computed,
                   targets, printed>>

\* Lines 69-71, one task of the second par_bridge: Note::new(p) for any
\* pending path; read_to_string(...).unwrap() (line 106) panics on a file
\* that cannot be read.  With the last note Vault::new returns (line 73).
Construct(i) ==
    /\ pc = "notes"
    /\ i \in pending
    /\ pending' = pending \ {i}
    /\ IF files[i].fault = "unreadable"
       THEN /\ Panic("Unreadable", i)
            /\ notes' = notes
       ELSE /\ cause' = cause
            /\ notes' = CollectNote(notes, NewNote(i, files[i]))
            /\ pc' = IF pending' = {} THEN "targets" ELSE pc
    /\ computed' = [k \in DOMAIN notes' |-> <<>>]
    /\ UNCHANGED <<files, toGlob, paths, targets, printed>>

\* Lines 85-87, one task of par_iter().map(|n| n.targets()): the targets of
\* any note not yet done, with par_bridge (line 166) delivering the nodes of
\* each alias match in any order.  A panic of the task aborts the run.
TargetsTask(k) ==
    /\ pc = "targets"
    /\ k \in DOMAIN notes
    /\ computed[k] = <<>>
    /\ LET n == notes[k]
           f == files[n.path]
       IN  \E sched \in Scheds(AliasMatches(f)) :
             LET r == NoteTargets(f, n, sched) IN
             IF r.panic # "none"
             THEN /\ Panic(r.panic, n.path)
                  /\ computed' = computed
             ELSE /\ cause' = cause
                  /\ computed' = [computed EXCEPT ![k] = <<r>>]
                  /\ pc' = IF \A j \in DOMAIN notes : computed'[j] # <<>>
                           THEN "collect" ELSE pc
    /\ UNCHANGED <<files, toGlob, paths, pending, notes, targets, printed>>

\* Lines 88-92 and 320: the lists of all notes, flattened in the order of
\* the notes and deduplicated, become the targets of main.
Collect ==
    /\ pc = "collect"
    /\ targets' = CollectTargets([k \in DOMAIN computed |-> computed[k][1].targets])
    /\ pc' = "sort"
    /\ UNCHANGED <<files, cause, toGlob, paths, pending, notes, computed,
                   printed>>

\* Line 321.
SortTargets ==
    /\ pc = "sort"
    /\ targets' = Sort(targets)
    /\ pc' = "print"
    /\ UNCHANGED <<files, cause, toGlob, paths, pending, notes, computed,
                   printed>>

\* Lines 322-324: one line per target, then main returns (exit code 0).
PrintTargets ==
    /\ pc = "print"
    /\ printed' = targets
    /\ pc' = "done"
    /\ UNCHANGED <<files, cause, toGlob, paths, pending, notes, computed,
                   targets>>

Next ==
    \/ \E i \in DOMAIN files : Discover(i)
    \/ DiscoverNone
    \/ \E i \in DOMAIN files : Construct(i)
    \/ \E k \in DOMAIN notes : TargetsTask(k)
    \/ Collect
    \/ SortTargets
    \/ PrintTargets

Spec == Init /\ [][Next]_vars

----------------------------------------------------------------------------
(* Properties *)

Done(k) == k \in DOMAIN computed /\ computed[k] # <<>>

FileOf(k) == files[notes[k].path]

\* Vault::new has returned.
Constructed ==
    \/ pc \in {"targets", "collect", "sort", "print", "done"}
    \/ pc = "aborted" /\ cause[1] \in {"NoName", "MalformedMatch"}

\* Vault::targets has returned.
Collected == pc \in {"sort", "print", "done"}

NoDuplicates(s) == \A a, b \in DOMAIN s : s[a] = s[b] => a = b

\* C1: Vault::targets holds no string twice, and as a set it is the union of
\* the targets of all notes.
C1_TargetsAreDedupUnion ==
    Collected =>
        /\ NoDuplicates(targets)
        /\ Range(targets)
             = UNION {Range(computed[k][1].targets) : k \in DOMAIN computed}

\* Vault::targets has returned for two notes that share a target.
C1_Witness ==
    /\ pc = "sort"
    /\ Len(notes) = 2
    /\ Range(computed[1][1].targets) \cap Range(computed[2][1].targets) # {}

\* The nodes of all alias matches of a file, as a set.
AliasNodes(f) ==
    UNION {Range(AliasMatches(f)[j]) : j \in DOMAIN AliasMatches(f)}

\* The targets of the file at path i, as a set: a function of the file only.
FileTargetSet(i, f) ==
    {Stem(i)}
    \cup {Stem(i) \o <<124>> \o Slice(FmText(f), nd) : nd \in AliasNodes(f)}
    \cup {l.destination : l \in Range(Links(f, NewNote(i, f)).links)}

StrictlySorted(s) ==
    \A a, b \in DOMAIN s : a < b => LexLess(s[a], s[b])

\* C2: what main prints is a function of the files alone: the run ends
\* without output exactly when some file is faulty, and otherwise prints the
\* byte-wise sorted enumeration of the union of the files' target sets,
\* whatever order the parallel tasks ran in.
C2_OutputIsDeterministic ==
    /\ pc # "done" => printed = <<>>
    /\ pc = "aborted" => \E i \in DOMAIN files : files[i].fault # "none"
    /\ pc = "done" =>
        /\ \A i \in DOMAIN files : files[i].fault = "none"
        /\ StrictlySorted(printed)
        /\ Range(printed)
             = UNION {FileTargetSet(i, files[i]) : i \in DOMAIN files}

\* A finished run whose notes were collected out of path order and whose
\* alias nodes were delivered out of order.
C2_Witness ==
    /\ pc = "done"
    /\ Len(notes) = 2
    /\ notes[1].path = 2
    /\ \E k \in DOMAIN notes :
         /\ FileOf(k).fm = "grouped"
         /\ computed[k][1].aliases = << <<121>>, <<120>> >>
    /\ Len(printed) >= 3

\* C3: the targets of a note are its name, then "name|alias" for each alias
\* of aliases() in order, then the destination of each link of links() in
\* order; every declared alias contributes such a string; duplicates stay.
C3_NoteTargetsLayout ==
    \A k \in DOMAIN notes : Done(k) =>
        LET c == computed[k][1]
            na == Len(c.aliases)
            nl == Len(c.links)
        IN  /\ c.name = Stem(notes[k].path)
            /\ Len(c.targets) = 1 + na + nl
            /\ c.targets[1] = c.name
            /\ \A i \in 1..na :
                 c.targets[1 + i] = c.name \o <<124>> \o c.aliases[i]
            /\ \A i \in 1..nl :
                 c.targets[1 + na + i] = c.links[i].destination
            /\ \A nd \in AliasNodes(FileOf(k)) :
                 c.name \o <<124>> \o Slice(FmText(FileOf(k)), nd)
                    \in Range(c.targets)

\* A note with two aliases and two links of the same destination.
C3_Witness ==
    \E k \in DOMAIN notes :
        /\ Done(k)
        /\ Len(computed[k][1].aliases) = 2
        /\ Len(computed[k][1].links) = 2
        /\ computed[k][1].targets[4] = computed[k][1].targets[5]

Last(v) == v[Len(v)]

\* The link the resolution table gives for a match with a capture.
TableLink(m, content) ==
    CASE m.dest = <<>> /\ m.text # <<>> ->
           [destination |-> Slice(content, Last(m.text)),
            text |-> Slice(content, Last(m.text))]
      [] m.dest # <<>> /\ m.text = <<>> ->
           [destination |-> Slice(content, Last(m.dest)),
            text |-> Slice(content, Last(m.dest))]
      [] m.dest # <<>> /\ m.text # <<>> ->
           [destination |-> Slice(content, Last(m.dest)),
            text |-> Slice(content, Last(m.text))]

\* The scalar texts frontmatter_links re-parses, in order.
ScalarTexts(f, n) ==
    IF Frontmatter(f, n) = None THEN <<>>
    ELSE [j \in DOMAIN ScalarMatches(f) |-> ScalarText(n, ScalarMatches(f)[j])]

\* C4: every link of body_links is its match resolved by the table (only a
\* text: both fields are the text; only a destination: both are the
\* destination; both: each its own), for the note's body and for each
\* re-parsed scalar; "[[Foo]] [[Foo|Bar]]" gives {Foo, Foo} and {Foo, Bar}.
C4_LinkResolution ==
    \A k \in DOMAIN notes : Done(k) =>
        LET c == computed[k][1]
            n == notes[k]
            bm == BodyMatches(FileOf(k), n.content)
            st == ScalarTexts(FileOf(k), n)
        IN  /\ Len(c.body_links) = Len(bm)
            /\ \A j \in DOMAIN bm : c.body_links[j] = TableLink(bm[j], n.content)
            /\ c.frontmatter_links
                 = Flatten([j \in DOMAIN st |->
                      [i \in DOMAIN LinkMatches(st[j], 1, TRUE) |->
                          TableLink(LinkMatches(st[j], 1, TRUE)[i], st[j])]])
            /\ BodyText(FileOf(k)) = BodyLinksText =>
                 c.body_links = <<[destination |-> Foo, text |-> Foo],
                                  [destination |-> Foo, text |-> BarText]>>

\* One note resolved a text-only and a two-capture match, another one a
\* destination-only match of a re-parsed scalar.
C4_Witness ==
    \E k, j \in DOMAIN notes :
        /\ Done(k) /\ Done(j)
        /\ Len(computed[k][1].body_links) = 2
        /\ BodyMatches(FileOf(k), notes[k].content)[1].dest = <<>>
        /\ computed[j][1].frontmatter_links
             = <<[destination |-> Foo, text |-> Foo]>>

\* s holds sub as a substring.
Contains(s, sub) ==
    \E a \in 0..(Len(s) - Len(sub)) : SubSeq(s, a + 1, a + Len(sub)) = sub

\* "[[Foo]]"
FooLink == <<91, 91>> \o Foo \o <<93, 93>>

\* C5: a note whose metadata block holds a double-quoted scalar containing
\* "[[Foo]]" has a link of destination "Foo" in frontmatter_links(), in
\* links() and "Foo" in targets().
C5_QuotedScalarContributesLink ==
    \A k \in DOMAIN notes :
        (/\ Done(k)
         /\ \E j \in DOMAIN ScalarMatches(FileOf(k)) :
              \E nd \in Range(ScalarMatches(FileOf(k))[j]) :
                 Contains(Slice(FmText(FileOf(k)), nd), FooLink))
        => /\ \E l \in Range(computed[k][1].frontmatter_links) :
                 /\ l.destination = Foo
                 /\ l \in Range(computed[k][1].links)
           /\ Foo \in Range(computed[k][1].targets)

\* C6: a file that cannot be read or has no name does not abort the run;
\* only a malformed match does (the static queries always compile).
C6_DocumentFailuresIsolated ==
    (\A i \in DOMAIN files : files[i].fault \in {"none", "unreadable", "noname"})
        => pc # "aborted"

\* The aliases in the order the query engine yields matches and nodes.
AliasesInOrder(f) ==
    Flatten([j \in DOMAIN AliasMatches(f) |->
        [i \in DOMAIN AliasMatches(f)[j] |->
            Slice(FmText(f), AliasMatches(f)[j][i])]])

HasCapture(m) == m.dest # <<>> \/ m.text # <<>>

\* Every match body_links sees for the note: of its body, of its scalars.
AllHaveCapture(f, n) ==
    /\ \A m \in Range(BodyMatches(f, n.content)) : HasCapture(m)
    /\ \A s \in Range(ScalarTexts(f, n)) :
         \A m \in Range(LinkMatches(s, 1, TRUE)) : HasCapture(m)

\* C8: a match with neither capture is neither turned into a link nor
\* skipped: the task of its note never finishes, the run aborts and prints
\* nothing; body_links panics on no note whose matches all have a capture.
C8_MalformedMatchIsFatal ==
    /\ \A k \in DOMAIN notes : Done(k) => AllHaveCapture(FileOf(k), notes[k])
    /\ pc = "aborted" => printed = <<>>
    /\ (pc = "aborted" /\ cause[1] = "MalformedMatch")
          => ~AllHaveCapture(files[cause[2]], NewNote(cause[2], files[cause[2]]))
    /\ \A k \in DOMAIN notes :
         AllHaveCapture(FileOf(k), notes[k]) => ~Links(FileOf(k), notes[k]).panic
    /\ \A k \in DOMAIN notes :
         ~AllHaveCapture(FileOf(k), notes[k]) => Links(FileOf(k), notes[k]).panic

\* The run aborted on a malformed match after another note's targets were
\* computed; nothing is printed.
C8_Witness ==
    /\ pc = "aborted"
    /\ cause[1] = "MalformedMatch"
    /\ \E k \in DOMAIN notes : Done(k) /\ Len(computed[k][1].links) > 0
    /\ printed = <<>>

\* C9: once Vault::new has returned, the notes are one per discovered file,
\* each with the content of its file, in some order.
C9_OneNotePerFile ==
    Constructed =>
        /\ Len(notes) = Len(files)
        /\ \A i \in DOMAIN files :
             Cardinality({k \in DOMAIN notes : notes[k].path = i}) = 1
        /\ \A k \in DOMAIN notes : notes[k].content = FileText(FileOf(k))

\* Vault::new has returned with the notes out of path order.
C9_Witness ==
    /\ pc = "targets"
    /\ Len(notes) = 2
    /\ notes[1].path = 2
    /\ notes[2].path = 1

\* C10: a metadata block is the first top-level node, starts at byte 0 of
\* the content and is a prefix of it, so a node of the metadata tree selects
\* the same text in the content as in the metadata block.
C10_MetadataIsPrefix ==
    \A k \in DOMAIN notes :
        LET f == FileOf(k)
            n == notes[k]
            fm == Frontmatter(f, n)
        IN  fm # None =>
              /\ FirstChild(f, n.content).kind = "minus_metadata"
              /\ FirstChild(f, n.content).start = 0
              /\ SubSeq(n.content, 1, Len(fm[1])) = fm[1]
              /\ \A j \in DOMAIN ScalarMatches(f) :
                   \A nd \in Range(ScalarMatches(f)[j]) :
                      Slice(n.content, nd) = Slice(fm[1], nd)

====
